---- MODULE Spec2Model ----
(***************************************************************************)
(* Model of backend/routes/incomingCalls.js: the incoming-call webhook,    *)
(* its bounded history, the server-sent-event fanout with heartbeats and   *)
(* the last/log read endpoints.                                            *)
(*                                                                         *)
(* JavaScript values are encoded as tuples of strings so that every        *)
(* comparison is between values of one shape:                              *)
(*   a string      the tuple of its characters, "" is << >>                *)
(*   null          <<"NULL">>  (undefined is not told apart from null)     *)
(*   a number n    <<"NUM">> \o its decimal characters                     *)
(* The tags are longer than one character, so no string collides with them.*)
(***************************************************************************)
EXTENDS Integers, Sequences, FiniteSets, TLC

\* ------------------------------------------------------------------ bounds
AllSteps == 5         \* handler runs and clock ticks of a behaviour of Spec
HubSteps == 6         \* handler runs of a behaviour of SpecHub
LogSteps == 5         \* handler runs and clock ticks of a behaviour of SpecLog
RingExtra == 2        \* ingestions beyond MAX_HISTORY in SpecRing
MaxDigits == 21       \* digits of the longest phone input of SpecPure

\* --------------------------------------------------------------- constants
MAX_HISTORY == 500
NumTriggers == 4       \* req close, req end, res close, res finish

\* ------------------------------------------------------------ JS encodings
Null == <<"NULL">>
NumTag == "NUM"
DigitChars == <<"0", "1", "2", "3", "4", "5", "6", "7", "8", "9">>
Digit == {DigitChars[i] : i \in 1..10}
WhiteSpace == {" ", "\t"}

IsNum(v) == Len(v) >= 1 /\ v[1] = NumTag
IsNull(v) == v = Null
IsStr(v) == ~IsNull(v) /\ ~IsNum(v)

DigitVal(c) == CHOOSE i \in 0..9 : DigitChars[i + 1] = c

\* decimal characters of a natural number, String(n)
RECURSIVE DecStr(_)
DecStr(n) == IF n < 10 THEN <<DigitChars[n + 1]>>
             ELSE Append(DecStr(n \div 10), DigitChars[(n % 10) + 1])

\* value of a run of decimal characters
RECURSIVE DecVal(_)
DecVal(s) == IF s = <<>> THEN 0
             ELSE 10 * DecVal(SubSeq(s, 1, Len(s) - 1)) + DigitVal(s[Len(s)])

JsNum(n) == <<NumTag>> \o DecStr(n)

\* String(v) for a non-null value
JsString(v) == IF IsNum(v) THEN Tail(v) ELSE v

\* truthiness: null, "", and the number 0 are falsy
Truthy(v) == ~IsNull(v) /\ v # <<>> /\ v # JsNum(0)

\* a || b
OrElse(a, b) == IF Truthy(a) THEN a ELSE b

\* a ?? b
Coalesce(a, b) == IF IsNull(a) THEN b ELSE a

RECURSIVE TrimStart(_)
TrimStart(s) == IF s # <<>> /\ s[1] \in WhiteSpace THEN TrimStart(Tail(s)) ELSE s

RECURSIVE TrimEnd(_)
TrimEnd(s) == IF s # <<>> /\ s[Len(s)] \in WhiteSpace
              THEN TrimEnd(SubSeq(s, 1, Len(s) - 1)) ELSE s

Trim(s) == TrimEnd(TrimStart(s))

UpperChars == <<"A", "B", "C", "D", "E", "F", "G", "H", "I", "J", "K", "L", "M",
                "N", "O", "P", "Q", "R", "S", "T", "U", "V", "W", "X", "Y", "Z">>
LowerChars == <<"a", "b", "c", "d", "e", "f", "g", "h", "i", "j", "k", "l", "m",
                "n", "o", "p", "q", "r", "s", "t", "u", "v", "w", "x", "y", "z">>

LowerChar(c) == IF \E i \in 1..26 : UpperChars[i] = c
                THEN LowerChars[CHOOSE i \in 1..26 : UpperChars[i] = c]
                ELSE c

ToLowerCase(s) == [i \in 1..Len(s) |-> LowerChar(s[i])]

\* str.replace(/\D/g, '')
RECURSIVE StripNonDigits(_)
StripNonDigits(s) ==
  IF s = <<>> THEN <<>>
  ELSE IF s[1] \in Digit THEN <<s[1]>> \o StripNonDigits(Tail(s))
  ELSE StripNonDigits(Tail(s))

\* ---------------------------------------------------------- normalizeStatus
STATUS_LABELS == {<<"r", "i", "n", "g", "i", "n", "g">>,
                  <<"a", "n", "s", "w", "e", "r", "e", "d">>,
                  <<"m", "i", "s", "s", "e", "d">>,
                  <<"r", "e", "j", "e", "c", "t", "e", "d">>}

\* variant: the status is compared as it was sent, not trimmed, not lowered
normalizeStatusVerbatim(rawStatus) ==
  IF ~Truthy(rawStatus) THEN <<"r", "i", "n", "g", "i", "n", "g">>
  ELSE LET status == JsString(rawStatus)
       IN IF status \in STATUS_LABELS THEN status
          ELSE IF status = <<"n", "o", "_", "a", "n", "s", "w", "e", "r">>
                  \/ status = <<"n", "o", "a", "n", "s", "w", "e", "r">>
               THEN <<"m", "i", "s", "s", "e", "d">>
          ELSE <<"r", "i", "n", "g", "i", "n", "g">>

normalizeStatus(rawStatus) ==
  IF ~Truthy(rawStatus) THEN <<"r", "i", "n", "g", "i", "n", "g">>
  ELSE LET status == ToLowerCase(Trim(JsString(rawStatus)))
       IN IF status \in STATUS_LABELS THEN status
          ELSE IF status = <<"n", "o", "_", "a", "n", "s", "w", "e", "r">>
                  \/ status = <<"n", "o", "a", "n", "s", "w", "e", "r">>
               THEN <<"m", "i", "s", "s", "e", "d">>
          ELSE <<"r", "i", "n", "g", "i", "n", "g">>

\* ------------------------------------------------------------ sanitizePhone
\* variant: the digits are not cut at 20
sanitizePhoneUncapped(rawValue) ==
  IF IsNull(rawValue) THEN [display |-> <<>>, digits |-> <<>>]
  ELSE LET str == Trim(JsString(rawValue))
           digits == StripNonDigits(str)
           startsWithPlus == str # <<>> /\ str[1] = "+"
       IN IF digits = <<>> THEN [display |-> <<>>, digits |-> <<>>]
          ELSE [display |-> IF startsWithPlus THEN <<"+">> \o digits ELSE digits,
                digits |-> digits]

sanitizePhone(rawValue) ==
  IF IsNull(rawValue) THEN [display |-> <<>>, digits |-> <<>>]
  ELSE LET str == Trim(JsString(rawValue))
           all == StripNonDigits(str)
           startsWithPlus == str # <<>> /\ str[1] = "+"
           digits == IF Len(all) > 20 THEN SubSeq(all, 1, 20) ELSE all
       IN IF str = <<>> THEN [display |-> <<>>, digits |-> <<>>]
          ELSE IF all = <<>> THEN [display |-> <<>>, digits |-> <<>>]
          ELSE [display |-> IF startsWithPlus THEN <<"+">> \o digits ELSE digits,
                digits |-> digits]

\* ----------------------------------------------------------------- parseInt
\* Number.parseInt(v, 10): leading white space, an optional sign, then the
\* longest run of decimal digits; NaN when that run is empty.
RECURSIVE DigitPrefix(_)
DigitPrefix(s) == IF s # <<>> /\ s[1] \in Digit
                  THEN <<s[1]>> \o DigitPrefix(Tail(s)) ELSE <<>>

parseInt(v) ==
  IF IsNull(v) THEN [nan |-> TRUE, val |-> 0]
  ELSE LET s == TrimStart(JsString(v))
           neg == s # <<>> /\ s[1] = "-"
           body == IF s # <<>> /\ s[1] \in {"-", "+"} THEN Tail(s) ELSE s
           run == DigitPrefix(body)
       IN IF run = <<>> THEN [nan |-> TRUE, val |-> 0]
          ELSE [nan |-> FALSE, val |-> IF neg THEN 0 - DecVal(run) ELSE DecVal(run)]

Min(a, b) == IF a < b THEN a ELSE b
Max(a, b) == IF a > b THEN a ELSE b

\* Math.max(1, Math.min(Number.parseInt(limit, 10) || 100, MAX_HISTORY))
clampLimit(rawLimit) ==
  LET p == parseInt(rawLimit)
      n == IF p.nan \/ p.val = 0 THEN 100 ELSE p.val
  IN Max(1, Min(n, MAX_HISTORY))

\* ------------------------------------------------------------------- state
VARIABLES
  expectedSecret,       \* process.env.PBX_WEBHOOK_SECRET, Null when unset
  listeners,            \* the Set of listeners, in insertion order
  lastCall,             \* << >> for null, <<entry>> otherwise
  sequence,
  secretWarningLogged,
  callHistory,
  opened,               \* number of listener objects created so far
  timer,                \* timer[s]: the setInterval of session s is running
  wire,                 \* wire[s]: frames written to the response of s
  cleanups,             \* cleanups[s]: what called cleanupListener on s, in order
  warnings,             \* console.warn calls
  now,                  \* the clock read by new Date()
  logPending,           \* << >>, or the /log request waiting for db.query
  lookupErrors,         \* console.error calls of the /log handler
  resp,                 \* the last response sent
  steps,                \* handler runs and clock ticks so far
  fnCall                \* a function applied on its own: its name, argument, result

vars == <<expectedSecret, listeners, lastCall, sequence, secretWarningLogged,
          callHistory, opened, timer, wire, cleanups, warnings, now, logPending,
          lookupErrors, resp, steps, fnCall>>

\* a session is created by one run of the stream handler
Sessions == 1..Max(AllSteps, Max(HubSteps, LogSteps))

NoResp == [op |-> "none", status |-> 0, error |-> "", call |-> <<>>, entries |-> <<>>]
Response(op, status, error, call, entries) ==
  [op |-> op, status |-> status, error |-> error, call |-> call, entries |-> entries]

\* the module state after it is loaded
InitState ==
  /\ expectedSecret \in {Null, <<"k", "1">>}
  /\ listeners = <<>>
  /\ lastCall = <<>>
  /\ sequence = 0
  /\ secretWarningLogged = FALSE
  /\ callHistory = <<>>
  /\ opened = 0
  /\ timer = [s \in Sessions |-> FALSE]
  /\ wire = [s \in Sessions |-> <<>>]
  /\ cleanups = [s \in Sessions |-> <<>>]
  /\ warnings = 0
  /\ now = 0
  /\ logPending = <<>>
  /\ lookupErrors = 0
  /\ resp = NoResp
  /\ steps = 0

\* no function is applied on its own
NoCall == [fn |-> "none", arg |-> <<>>, out |-> <<>>]

Init == InitState /\ fnCall = NoCall

\* ------------------------------------------------- listeners, frames, ring
SeqRange(q) == {q[i] : i \in 1..Len(q)}

\* listeners.add(s)
SetAdd(q, s) == IF s \in SeqRange(q) THEN q ELSE Append(q, s)

\* listeners.delete(s)
RECURSIVE SetDelete(_, _)
SetDelete(q, s) ==
  IF q = <<>> THEN <<>>
  ELSE IF q[1] = s THEN SetDelete(Tail(q), s)
  ELSE <<q[1]>> \o SetDelete(Tail(q), s)

RetryFrame == [type |-> "retry", id |-> <<>>, data |-> <<>>]
KeepAliveFrame == [type |-> "keep-alive", id |-> <<>>, data |-> <<>>]
CallFrame(event) == [type |-> "call", id |-> event.id, data |-> <<event>>]

KeepAlives(frames) == Cardinality({i \in 1..Len(frames) : frames[i] = KeepAliveFrame})

\* The session part of the state, threaded through broadcast.
Hub == [listeners |-> listeners, timer |-> timer, wire |-> wire, cleanups |-> cleanups]

\* variant: the interval is cleared and the listener stays in the set
cleanupListenerKeepsListener(h, s, by) ==
  [h EXCEPT !.timer[s] = FALSE,
            !.cleanups[s] = Append(@, by)]

\* variant: the interval is not cleared
cleanupListenerKeepsTimer(h, s, by) ==
  [h EXCEPT !.listeners = SetDelete(h.listeners, s),
            !.cleanups[s] = Append(@, by)]

\* by names the caller; it is recorded and changes nothing else
cleanupListener(h, s, by) ==
  [h EXCEPT !.timer[s] = FALSE,
            !.listeners = SetDelete(h.listeners, s),
            !.cleanups[s] = Append(@, by)]

\* variant: no try/catch, the first write that throws ends the loop
RECURSIVE broadcastLoopAbort(_, _, _, _)
broadcastLoopAbort(h, snapshot, payload, failing) ==
  IF snapshot = <<>> THEN h
  ELSE LET s == snapshot[1]
       IN IF s \in failing THEN h
          ELSE broadcastLoopAbort([h EXCEPT !.wire[s] = Append(@, payload)],
                                  Tail(snapshot), payload, failing)

\* variant: the loop runs over the live set by index, so that a removal makes
\* it pass over the listener that follows
RECURSIVE broadcastLoopSkip(_, _, _, _)
broadcastLoopSkip(h, snapshot, payload, failing) ==
  IF snapshot = <<>> THEN h
  ELSE LET s == snapshot[1]
       IN IF s \in failing
          THEN broadcastLoopSkip(cleanupListener(h, s, "broadcast"),
                                 IF Len(snapshot) > 1 THEN Tail(Tail(snapshot)) ELSE <<>>,
                                 payload, failing)
          ELSE broadcastLoopSkip([h EXCEPT !.wire[s] = Append(@, payload)],
                                 Tail(snapshot), payload, failing)

\* The loop of broadcast over the snapshot Array.from(listeners); the write
\* to a listener in failing throws, every other write appends the frame.
RECURSIVE broadcastLoop(_, _, _, _)
broadcastLoop(h, snapshot, payload, failing) ==
  IF snapshot = <<>> THEN h
  ELSE LET s == snapshot[1]
           h1 == IF s \in failing THEN cleanupListener(h, s, "broadcast")
                 ELSE [h EXCEPT !.wire[s] = Append(@, payload)]
       IN broadcastLoop(h1, Tail(snapshot), payload, failing)

\* variant: broadcast(lastCall) called before lastCall is assigned the new entry
broadcastStale(h, event, failing) ==
  broadcastLoop(h, h.listeners,
                IF lastCall # <<>> THEN CallFrame(lastCall[1]) ELSE CallFrame(event), failing)

broadcast(h, event, failing) ==
  broadcastLoop(h, h.listeners, CallFrame(event), failing)

\* variant: the entry stored before is closed as missed when the next arrives
storeInHistoryClosesPrevious(history, entry) ==
  LET closed == [i \in 1..Len(history) |->
                   IF i = 1 THEN [history[i] EXCEPT !.status = <<"m", "i", "s", "s", "e", "d">>] ELSE history[i]]
      pushed == <<entry>> \o closed
  IN IF Len(pushed) > MAX_HISTORY THEN SubSeq(pushed, 1, Len(pushed) - 1) ELSE pushed

\* variant: shift() in place of pop(), evicting the entry just stored
storeInHistoryShift(history, entry) ==
  LET pushed == <<entry>> \o history
  IN IF Len(pushed) > MAX_HISTORY THEN Tail(pushed) ELSE pushed

storeInHistory(history, entry) ==
  LET pushed == <<entry>> \o history
  IN IF Len(pushed) > MAX_HISTORY THEN SubSeq(pushed, 1, Len(pushed) - 1) ELSE pushed

\* -------------------------------------------------------------- POST /
\* req.get('x-pbx-secret') || req.body?.secret || req.query?.secret
providedSecret(req) == OrElse(OrElse(req.header, req.bodySecret), req.querySecret)

\* variant: a request without any credential is let through
secretRejectedOnlyMismatch(req) ==
  /\ Truthy(expectedSecret)
  /\ Truthy(providedSecret(req))
  /\ providedSecret(req) # expectedSecret

\* variant: the warning is not latched by secretWarningLogged
warnsMissingSecretEveryTime == ~Truthy(expectedSecret)

\* the else-if of the secret check: console.warn is called
warnsMissingSecret == ~Truthy(expectedSecret) /\ ~secretWarningLogged

\* the first branch of the handler: TRUE when it answers 401
secretRejected(req) ==
  /\ Truthy(expectedSecret)
  /\ (~Truthy(providedSecret(req)) \/ providedSecret(req) # expectedSecret)

\* req.body?.phone ?? req.body?.caller ?? req.body?.number ?? ''
rawPhone(req) == Coalesce(Coalesce(Coalesce(req.phone, req.caller), req.number), <<>>)

\* variant: the raw field is tested, before it is sanitized
phoneMissingRaw(req) == ~Truthy(rawPhone(req))

phoneMissing(req) ==
  LET p == sanitizePhone(rawPhone(req))
  IN ~Truthy(p.display) /\ ~Truthy(p.digits)

\* variant: the counter is advanced twice for one event
nextIdTwice(seq) == seq + 2

\* ++sequence
nextId(seq) == seq + 1

\* variant: String(sequence++), the id is the counter before the increment
makeEntryPostIncrement(req, id) ==
  LET p == sanitizePhone(rawPhone(req))
      extension == IF ~IsNull(req.extension) THEN Trim(JsString(req.extension)) ELSE Null
      source == IF ~IsNull(req.source) THEN Trim(JsString(req.source)) ELSE Null
      note == IF IsStr(req.note) THEN Trim(req.note) ELSE Null
  IN [id |-> DecStr(id - 1),
      phone |-> OrElse(p.display, p.digits),
      digits |-> p.digits,
      extension |-> OrElse(extension, Null),
      source |-> OrElse(source, Null),
      received_at |-> DecStr(now),
      status |-> normalizeStatus(req.status),
      note |-> OrElse(note, Null),
      meta |-> [callerName |-> IF IsStr(req.name) THEN OrElse(Trim(req.name), Null) ELSE Null,
                personId |-> Coalesce(req.person_id, Null)]]

\* the entry built from an accepted request, with the id it is given
makeEntry(req, id) ==
  LET p == sanitizePhone(rawPhone(req))
      extension == IF ~IsNull(req.extension) THEN Trim(JsString(req.extension)) ELSE Null
      source == IF ~IsNull(req.source) THEN Trim(JsString(req.source)) ELSE Null
      note == IF IsStr(req.note) THEN Trim(req.note) ELSE Null
  IN [id |-> DecStr(id),
      phone |-> OrElse(p.display, p.digits),
      digits |-> p.digits,
      extension |-> OrElse(extension, Null),
      source |-> OrElse(source, Null),
      received_at |-> DecStr(now),
      status |-> normalizeStatus(req.status),
      note |-> OrElse(note, Null),
      meta |-> [callerName |-> IF IsStr(req.name) THEN OrElse(Trim(req.name), Null) ELSE Null,
                personId |-> Coalesce(req.person_id, Null)]]

\* the handler of POST /; failing is the set of listeners whose write throws
Ingest(req, failing) ==
  IF secretRejected(req)
  THEN /\ resp' = Response("post", 401, "invalid secret", <<>>, <<>>)
       /\ UNCHANGED <<expectedSecret, listeners, lastCall, sequence, secretWarningLogged,
                      callHistory, opened, timer, wire, cleanups,
                      warnings, now, logPending, lookupErrors>>
  ELSE /\ IF warnsMissingSecret
          THEN warnings' = warnings + 1 /\ secretWarningLogged' = TRUE
          ELSE UNCHANGED <<warnings, secretWarningLogged>>
       /\ IF phoneMissing(req)
          THEN /\ resp' = Response("post", 400, "phone missing", <<>>, <<>>)
               /\ UNCHANGED <<listeners, lastCall, sequence, callHistory, timer, wire,
                              cleanups>>
          ELSE LET entry == makeEntry(req, nextId(sequence))
                   h == broadcast(Hub, entry, failing)
               IN /\ sequence' = nextId(sequence)
                  /\ callHistory' = storeInHistory(callHistory, entry)
                  /\ lastCall' = <<entry>>
                  /\ listeners' = h.listeners
                  /\ timer' = h.timer
                  /\ wire' = h.wire
                  /\ cleanups' = h.cleanups
                  /\ resp' = Response("post", 200, "", <<>>, <<>>)
       /\ UNCHANGED <<expectedSecret, opened, now, logPending, lookupErrors>>

\* -------------------------------------------------------------- GET /stream
\* variant: lastCall is written before the retry hint
openFramesCallFirst(last) ==
  IF last # <<>> THEN <<CallFrame(last[1]), RetryFrame>> ELSE <<RetryFrame>>

\* the frames the handler writes: the retry hint, then lastCall if there is one
openFrames(last) ==
  IF last # <<>> THEN <<RetryFrame, CallFrame(last[1])>> ELSE <<RetryFrame>>

\* The response of a request that has just arrived accepts the two writes of
\* the handler; a write can throw only later, in broadcast or in a heartbeat.
StreamOpen(user) ==
  IF ~user
  THEN /\ resp' = Response("stream", 401, "auth required", <<>>, <<>>)
       /\ UNCHANGED <<expectedSecret, listeners, lastCall, sequence, secretWarningLogged,
                      callHistory, opened, timer, wire, cleanups,
                      warnings, now, logPending, lookupErrors>>
  ELSE LET s == opened + 1
       IN /\ opened' = s
          /\ timer' = [timer EXCEPT ![s] = TRUE]
          /\ listeners' = SetAdd(listeners, s)
          /\ wire' = [wire EXCEPT ![s] = openFrames(lastCall)]
          /\ resp' = Response("stream", 200, "", <<>>, <<>>)
          /\ UNCHANGED <<expectedSecret, lastCall, sequence, secretWarningLogged,
                         callHistory, cleanups, warnings, now, logPending, lookupErrors>>

\* variant: a keep-alive that throws clears the interval and leaves the listener
HeartbeatStopsOnly(s, ok) ==
  /\ timer[s]
  /\ IF ok
     THEN /\ wire' = [wire EXCEPT ![s] = Append(@, KeepAliveFrame)]
          /\ UNCHANGED <<listeners, timer, cleanups>>
     ELSE /\ timer' = [timer EXCEPT ![s] = FALSE]
          /\ cleanups' = [cleanups EXCEPT ![s] = Append(@, "heartbeat")]
          /\ UNCHANGED <<listeners, wire>>
  /\ UNCHANGED <<expectedSecret, lastCall, sequence, secretWarningLogged, callHistory,
                 opened, warnings, now, logPending, lookupErrors, resp>>

\* the setInterval callback of session s; ok is the outcome of res.write
Heartbeat(s, ok) ==
  /\ timer[s]
  /\ IF ok
     THEN /\ wire' = [wire EXCEPT ![s] = Append(@, KeepAliveFrame)]
          /\ UNCHANGED <<listeners, timer, cleanups>>
     ELSE LET h == cleanupListener(Hub, s, "heartbeat")
          IN /\ listeners' = h.listeners
             /\ timer' = h.timer
             /\ cleanups' = h.cleanups
             /\ wire' = h.wire
  /\ UNCHANGED <<expectedSecret, lastCall, sequence, secretWarningLogged, callHistory,
                 opened, warnings, now, logPending, lookupErrors, resp>>

\* the handler of req 'close', req 'end', res 'close' or res 'finish' of
\* session s: the four handlers are the same closure, and NumTriggers of
\* them can run for one session
Teardown(s) ==
  /\ s <= opened
  /\ Cardinality({i \in 1..Len(cleanups[s]) : cleanups[s][i] = "event"}) < NumTriggers
  /\ LET h == cleanupListener(Hub, s, "event")
     IN /\ listeners' = h.listeners
        /\ timer' = h.timer
        /\ cleanups' = h.cleanups
        /\ wire' = h.wire
  /\ UNCHANGED <<expectedSecret, lastCall, sequence, secretWarningLogged, callHistory,
                 opened, warnings, now, logPending, lookupErrors, resp>>

\* ---------------------------------------------------------------- GET /last
Last(user) ==
  /\ resp' = IF ~user THEN Response("last", 401, "auth required", <<>>, <<>>)
             ELSE Response("last", 200, "", lastCall, <<>>)
  /\ UNCHANGED <<expectedSecret, listeners, lastCall, sequence, secretWarningLogged,
                 callHistory, opened, timer, wire, cleanups, warnings,
                 now, logPending, lookupErrors>>

Tick ==
  /\ now' = now + 1
  /\ UNCHANGED <<expectedSecret, listeners, lastCall, sequence, secretWarningLogged,
                 callHistory, opened, timer, wire, cleanups, warnings,
                 logPending, lookupErrors, resp>>

\* ----------------------------------------------------------------- GET /log
\* Array.from(new Set(slice.map(e => e.digits).filter(Boolean)))
RECURSIVE distinctDigits(_, _)
distinctDigits(slice, acc) ==
  IF slice = <<>> THEN acc
  ELSE distinctDigits(Tail(slice),
                      IF Truthy(slice[1].digits) THEN SetAdd(acc, slice[1].digits) ELSE acc)

\* the loop over rowsRes.rows: the first row of a key wins; people is the
\* object peopleByPhone as a sequence of [key, id, name]
RECURSIVE collectPeople(_, _)
collectPeople(rows, people) ==
  IF rows = <<>> THEN people
  ELSE LET row == rows[1]
           key == IF Truthy(row.phone) THEN Trim(JsString(row.phone)) ELSE Null
           skip == ~Truthy(key) \/ \E i \in 1..Len(people) : people[i].key = key
       IN collectPeople(Tail(rows),
                        IF skip THEN people
                        ELSE Append(people, [key |-> key, id |-> row.id, name |-> row.name]))

NoPerson == [key |-> Null, id |-> Null, name |-> Null]

\* peopleByPhone[digits], NoPerson when the key is not there
personOf(people, digits) ==
  IF \E i \in 1..Len(people) : people[i].key = digits
  THEN people[CHOOSE i \in 1..Len(people) : people[i].key = digits]
  ELSE NoPerson

logRow(entry, people) ==
  LET person == IF Truthy(entry.digits) THEN personOf(people, entry.digits) ELSE NoPerson
  IN [id |-> entry.id,
      phone |-> entry.phone,
      digits |-> entry.digits,
      received_at |-> entry.received_at,
      extension |-> entry.extension,
      source |-> entry.source,
      status |-> entry.status,
      note |-> entry.note,
      caller_name |-> OrElse(OrElse(entry.meta.callerName, person.name), Null),
      person_id |-> OrElse(OrElse(entry.meta.personId, person.id), Null)]

logEntries(slice, people) == [i \in 1..Len(slice) |-> logRow(slice[i], people)]

\* variant: slice(-limit), the oldest entries of the history
recentOldest(history, limit) ==
  SubSeq(history, Len(history) - Min(limit, Len(history)) + 1, Len(history))

\* callHistory.slice(0, limit)
recent(history, limit) == SubSeq(history, 1, Min(limit, Len(history)))

\* the handler up to the await of db.query; without digits it answers at once
LogStart(user, rawLimit) ==
  /\ logPending = <<>>
  /\ IF ~user
     THEN /\ resp' = Response("log", 401, "auth required", <<>>, <<>>)
          /\ UNCHANGED logPending
     ELSE LET limit == clampLimit(rawLimit)
              slice == recent(callHistory, limit)
              digits == distinctDigits(slice, <<>>)
          IN IF digits = <<>>
             THEN /\ resp' = Response("log", 200, "", <<>>, logEntries(slice, <<>>))
                  /\ UNCHANGED logPending
             ELSE /\ logPending' = <<[limit |-> limit, slice |-> slice, digits |-> digits]>>
                  /\ UNCHANGED resp
  /\ UNCHANGED <<expectedSecret, listeners, lastCall, sequence, secretWarningLogged,
                 callHistory, opened, timer, wire, cleanups, warnings, now, lookupErrors>>

\* variant: without the try/catch, the rejection of db.query ends the request
\* with an error response
LogFinishFailsOnThrow(threw, rows) ==
  /\ logPending # <<>>
  /\ resp' = IF threw THEN Response("log", 500, "lookup failed", <<>>, <<>>)
             ELSE Response("log", 200, "", <<>>,
                           logEntries(logPending[1].slice, collectPeople(rows, <<>>)))
  /\ logPending' = <<>>
  /\ lookupErrors' = IF threw THEN lookupErrors + 1 ELSE lookupErrors
  /\ UNCHANGED <<expectedSecret, listeners, lastCall, sequence, secretWarningLogged,
                 callHistory, opened, timer, wire, cleanups, warnings, now>>

\* db.query settles: it threw, or it returned rows
LogFinish(threw, rows) ==
  /\ logPending # <<>>
  /\ LET people == IF threw THEN <<>> ELSE collectPeople(rows, <<>>)
     IN resp' = Response("log", 200, "", <<>>, logEntries(logPending[1].slice, people))
  /\ logPending' = <<>>
  /\ lookupErrors' = IF threw THEN lookupErrors + 1 ELSE lookupErrors
  /\ UNCHANGED <<expectedSecret, listeners, lastCall, sequence, secretWarningLogged,
                 callHistory, opened, timer, wire, cleanups, warnings, now>>

\* ------------------------------------------------------------------ inputs
Secret == <<"k", "1">>

BaseReq ==
  [header |-> Secret, bodySecret |-> Null, querySecret |-> Null,
   phone |-> <<"+", "1", " ", "5">>, caller |-> Null, number |-> Null,
   extension |-> Null, source |-> Null, status |-> Null, note |-> Null,
   name |-> Null, person_id |-> Null]

Requests ==
  { BaseReq,
    \* caller as the phone-like field, secret in the body, free text to trim
    [BaseReq EXCEPT !.header = Null, !.bodySecret = Secret, !.phone = Null,
                    !.caller = <<"7">>,
                    !.status = <<" ", "N", "o", "_", "A", "n", "s", "w", "e", "r">>,
                    !.name = <<" ", "A", "n", "n", " ">>, !.note = <<"x", " ">>,
                    !.person_id = JsNum(5)],
    \* number as the phone-like field, secret in the query, values that fall back
    [BaseReq EXCEPT !.header = <<>>, !.querySecret = Secret, !.phone = Null,
                    !.number = JsNum(42), !.status = <<"W", "E", "I", "R", "D">>,
                    !.person_id = JsNum(0), !.extension = <<" ">>,
                    !.source = <<"p", "b", "x">>, !.note = JsNum(5)],
    \* a wrong header hides the right secret of the body
    [BaseReq EXCEPT !.header = <<"k", "2">>, !.bodySecret = Secret],
    \* no credential at all
    [BaseReq EXCEPT !.header = Null],
    \* the secret as a number
    [BaseReq EXCEPT !.header = Null, !.bodySecret = JsNum(1)],
    \* no phone-like field
    [BaseReq EXCEPT !.phone = Null],
    \* an empty phone stops the chain of ??
    [BaseReq EXCEPT !.phone = <<>>, !.caller = <<"7">>],
    [BaseReq EXCEPT !.phone = <<" ", "\t">>],
    [BaseReq EXCEPT !.phone = <<"a", "-", "+">>],
    \* no phone and no credential
    [BaseReq EXCEPT !.header = Null, !.phone = Null] }

Limits ==
  { Null, <<>>, <<"a", "b", "c">>, <<"0">>, <<"-", "5">>, <<"1">>, <<"2">>,
    <<"3">>, <<" ", "3", "x">>, JsNum(4), DecStr(MAX_HISTORY), DecStr(MAX_HISTORY + 1),
    <<"9", "9", "9", "9">> }

Row(id, name, phone) == [id |-> id, name |-> name, phone |-> phone]

DbRows ==
  { <<>>,
    <<Row(JsNum(9), <<"B", "o", "b">>, <<" ", "1", "5">>),
      Row(JsNum(8), <<"E", "v", "e">>, <<"1", "5">>),
      Row(JsNum(3), Null, JsNum(7)),
      Row(JsNum(2), <<"Z">>, Null),
      Row(JsNum(4), <<"D">>, <<"4", "2">>)>>,
    <<Row(JsNum(0), <<>>, <<"4", "2">>), Row(JsNum(6), <<"C">>, <<"7">>)>> }

\* ---- inputs of the functions applied on their own
UpperChar(c) == IF \E i \in 1..26 : LowerChars[i] = c
                THEN UpperChars[CHOOSE i \in 1..26 : LowerChars[i] = c]
                ELSE c

ToUpperCase(s) == [i \in 1..Len(s) |-> UpperChar(s[i])]

Capitalize(s) == [i \in 1..Len(s) |-> IF i = 1 THEN UpperChar(s[i]) ELSE s[i]]

\* status words, in lower case
StatusWords ==
  { <<"r", "i", "n", "g", "i", "n", "g">>,
    <<"a", "n", "s", "w", "e", "r", "e", "d">>,
    <<"m", "i", "s", "s", "e", "d">>,
    <<"r", "e", "j", "e", "c", "t", "e", "d">>,
    <<"n", "o", "_", "a", "n", "s", "w", "e", "r">>,
    <<"n", "o", "a", "n", "s", "w", "e", "r">>,
    <<"w", "e", "i", "r", "d">>,
    <<"n", "o", " ", "a", "n", "s", "w", "e", "r">>,
    <<"n", "o", "-", "a", "n", "s", "w", "e", "r">>,
    <<"r", "i", "n", "g">>,
    <<"m", "i", "s", "s", "e", "d", "x">>,
    <<>> }

PadRuns == { <<>>, <<" ">>, <<"\t", " ">> }

\* every word in lower case, in upper case and capitalized, with white space
\* on either side; word is the word that raw spells
StatusSpellings ==
  UNION { { [raw |-> l \o c \o r, word |-> w] :
              l \in PadRuns, c \in {w, ToUpperCase(w), Capitalize(w)}, r \in PadRuns } :
          w \in StatusWords }

\* the statuses that are not strings: absent, and numbers
StatusNonStrings == { Null, JsNum(0), JsNum(7) }

StatusInputs == { c.raw : c \in StatusSpellings } \cup StatusNonStrings

\* the digits 1, 2, ..., 9, 0, 1, ... up to n of them
DigitRun(n) == [i \in 1..n |-> DigitChars[(i % 10) + 1]]

\* a dash after each digit
Dashed(run) == [i \in 1..(2 * Len(run)) |-> IF i % 2 = 1 THEN run[(i + 1) \div 2] ELSE "-"]

PhoneBodies ==
  UNION { { DigitRun(n), Dashed(DigitRun(n)), <<"(">> \o DigitRun(n) \o <<")", "+">> } :
          n \in 0..MaxDigits }

PhoneInputs ==
  { l \o plus \o b \o r :
      l \in {<<>>, <<" ">>}, plus \in {<<>>, <<"+">>}, b \in PhoneBodies,
      r \in {<<>>, <<" ">>} }
  \cup { Null, JsNum(0), JsNum(42),
         <<"+", "1", " ", "(", "5", "5", "5", ")", " ", "0", "1", "2", "-", "3", "4", "5", "6">> }

PureCalls ==
  { [fn |-> "normalizeStatus", arg |-> a, out |-> <<>>] : a \in StatusInputs }
  \cup { [fn |-> "sanitizePhone", arg |-> a, out |-> <<>>] : a \in PhoneInputs }

\* the requests of the specifications with listeners: those of Requests that
\* are rejected or stored as BaseReq is
HubRequests ==
  { r \in Requests : sanitizePhone(rawPhone(r)).digits \in {<<>>, <<"1", "5">>} }

HubLimits == { Null, <<"1">> }

\* ----------------------------------------------------------- specifications
IngestFrom(reqs) ==
  \E req \in reqs : \E failing \in SUBSET SeqRange(listeners) : Ingest(req, failing)

StreamOpenAny == \E user \in BOOLEAN : StreamOpen(user)

HeartbeatAny == \E s \in Sessions : \E ok \in BOOLEAN : Heartbeat(s, ok)

TeardownAny == \E s \in Sessions : Teardown(s)

LastAny == \E user \in BOOLEAN : Last(user)

LogStartFrom(limits) == \E user \in BOOLEAN : \E rawLimit \in limits : LogStart(user, rawLimit)

LogFinishFrom(results) ==
  \E threw \in BOOLEAN : \E rows \in results : LogFinish(threw, IF threw THEN <<>> ELSE rows)

\* one more step of a behaviour of at most bound steps
Counted(bound) == steps < bound /\ steps' = steps + 1 /\ UNCHANGED fnCall

\* Spec: every handler and the clock
DoIngest == Counted(AllSteps) /\ IngestFrom(HubRequests)
DoStreamOpen == Counted(AllSteps) /\ StreamOpenAny
DoHeartbeat == Counted(AllSteps) /\ HeartbeatAny
DoTeardown == Counted(AllSteps) /\ TeardownAny
DoLast == Counted(AllSteps) /\ LastAny
DoLogStart == Counted(AllSteps) /\ LogStartFrom(HubLimits)
DoLogFinish == Counted(AllSteps) /\ LogFinishFrom(DbRows)
DoTick == Counted(AllSteps) /\ Tick

Next ==
  \/ DoIngest
  \/ DoStreamOpen
  \/ DoHeartbeat
  \/ DoTeardown
  \/ DoLast
  \/ DoLogStart
  \/ DoLogFinish
  \/ DoTick

Spec == Init /\ [][Next]_vars

\* SpecHub: ingestion and the listeners, without the reads of the history
HubIngest == Counted(HubSteps) /\ IngestFrom(HubRequests)
HubStreamOpen == Counted(HubSteps) /\ StreamOpenAny
HubHeartbeat == Counted(HubSteps) /\ HeartbeatAny
HubTeardown == Counted(HubSteps) /\ TeardownAny

NextHub ==
  \/ HubIngest
  \/ HubStreamOpen
  \/ HubHeartbeat
  \/ HubTeardown

SpecHub == Init /\ [][NextHub]_vars

\* SpecLog: ingestion of every request shape and the reads, without listeners
LogIngest == Counted(LogSteps) /\ IngestFrom(Requests)
LogLast == Counted(LogSteps) /\ LastAny
LogLogStart == Counted(LogSteps) /\ LogStartFrom(Limits)
LogLogFinish == Counted(LogSteps) /\ LogFinishFrom(DbRows)
LogTick == Counted(LogSteps) /\ Tick

NextLog ==
  \/ LogIngest
  \/ LogLast
  \/ LogLogStart
  \/ LogLogFinish
  \/ LogTick

SpecLog == Init /\ [][NextLog]_vars

\* SpecRing: the history filled beyond MAX_HISTORY by one request shape; the
\* steps are not counted, the number of accepted requests is bounded
RingIngest ==
  /\ sequence < MAX_HISTORY + RingExtra
  /\ IngestFrom({BaseReq, [BaseReq EXCEPT !.phone = Null]})
  /\ UNCHANGED <<steps, fnCall>>

NextRing == RingIngest

SpecRing == Init /\ [][NextRing]_vars

\* SpecPure: normalizeStatus and sanitizePhone applied to one argument, which
\* is then sent as the status or the phone of a request
handlerVars == <<expectedSecret, listeners, lastCall, sequence, secretWarningLogged,
                 callHistory, opened, timer, wire, cleanups, warnings, now, logPending,
                 lookupErrors, resp, steps>>

InitPure == InitState /\ fnCall \in PureCalls

ApplyNormalizeStatus ==
  /\ fnCall.fn = "normalizeStatus"
  /\ fnCall.out = <<>>
  /\ fnCall' = [fnCall EXCEPT !.out = <<normalizeStatus(fnCall.arg)>>]
  /\ UNCHANGED handlerVars

ApplySanitizePhone ==
  /\ fnCall.fn = "sanitizePhone"
  /\ fnCall.out = <<>>
  /\ fnCall' = [fnCall EXCEPT !.out = <<sanitizePhone(fnCall.arg)>>]
  /\ UNCHANGED handlerVars

\* the request that carries the argument
PureRequest ==
  IF fnCall.fn = "normalizeStatus" THEN [BaseReq EXCEPT !.status = fnCall.arg]
  ELSE [BaseReq EXCEPT !.phone = fnCall.arg]

PureIngest ==
  /\ fnCall.out # <<>>
  /\ resp.op = "none"
  /\ Ingest(PureRequest, {})
  /\ UNCHANGED <<steps, fnCall>>

NextPure ==
  \/ ApplyNormalizeStatus
  \/ ApplySanitizePhone
  \/ PureIngest

SpecPure == InitPure /\ [][NextPure]_vars

\* ----------------------------------------------------------------- claims
\* the ids of the call frames of a response, in the order they were written
RECURSIVE CallIds(_)
CallIds(frames) ==
  IF frames = <<>> THEN <<>>
  ELSE IF frames[1].type = "call" THEN <<DecVal(frames[1].id)>> \o CallIds(Tail(frames))
  ELSE CallIds(Tail(frames))

LastOf(q) == q[Len(q)]

\* C1: the accepted events carry the ids 1, 2, 3, ... in the order they were
\* accepted, without gap or repeat, and a rejected request (400 or 401) uses up
\* no id: the counter equals the number of events accepted so far.
C1_IdsFollowAcceptance ==
  /\ Len(callHistory) < MAX_HISTORY => sequence = Len(callHistory)
  /\ \A i \in 1..Len(callHistory) :
       DecVal(callHistory[i].id) = Len(callHistory) - i + 1

\* three events accepted, the last request rejected
C1_Witness ==
  /\ Len(callHistory) = 3
  /\ resp.op = "post"
  /\ resp.status \in {400, 401}

\* C2: the history never holds more than MAX_HISTORY entries; it holds the
\* min(accepted, MAX_HISTORY) most recently accepted events, newest first, so
\* beyond the capacity the oldest entry is the one that went.
C2_RingKeepsNewest ==
  /\ Len(callHistory) <= MAX_HISTORY
  /\ Len(callHistory) = Min(sequence, MAX_HISTORY)
  /\ \A i \in 1..Len(callHistory) : callHistory[i].id = DecStr(sequence - i + 1)

\* more events accepted than the history can hold
C2_Witness ==
  /\ sequence > MAX_HISTORY + 1
  /\ Len(callHistory) = MAX_HISTORY
  /\ callHistory[MAX_HISTORY].id = DecStr(sequence - MAX_HISTORY + 1)

\* C3: a registered session has on its response every event published since
\* it was registered (none of its writes having thrown), in ascending id
\* order: its call frames are consecutive ids that end at the newest event.
C3_LiveSessionSeesEveryEventInOrder ==
  \A s \in SeqRange(listeners) :
    LET ids == CallIds(wire[s])
    IN sequence > 0 =>
         /\ ids # <<>>
         /\ LastOf(ids) = sequence
         /\ \A i \in 1..(Len(ids) - 1) : ids[i + 1] = ids[i] + 1

\* a session registered before the first event has received three of them
C3_Witness ==
  \E s \in SeqRange(listeners) : CallIds(wire[s]) = <<1, 2, 3>>

\* C4: in the broadcast of an accepted event, a listener whose write throws is
\* unregistered with its heartbeat cancelled, every other listener registered
\* at the start of the broadcast has the frame appended and stays registered,
\* and the request is answered with success.
C4_FailureIsIsolated ==
  [][sequence' # sequence =>
       \A req \in HubRequests : \A failing \in SUBSET SeqRange(listeners) :
         Ingest(req, failing) =>
         /\ resp'.status = 200
         /\ \A s \in SeqRange(listeners) :
              IF s \in failing
              THEN /\ s \notin SeqRange(listeners')
                   /\ ~timer'[s]
                   /\ wire'[s] = wire[s]
              ELSE /\ s \in SeqRange(listeners')
                   /\ timer'[s]
                   /\ wire'[s] = Append(wire[s], CallFrame(lastCall'[1]))]_vars

\* the broadcast of the newest event dropped one session and reached another
C4_Witness ==
  \E s1 \in Sessions : \E s2 \in SeqRange(listeners) :
    /\ cleanups[s1] = <<"broadcast">>
    /\ CallIds(wire[s1]) # <<>>
    /\ LastOf(CallIds(wire[s1])) = sequence - 1
    /\ Len(wire[s2]) >= 3
    /\ LastOf(wire[s2]) = CallFrame(lastCall[1])
    /\ resp.op = "post"
    /\ resp.status = 200

\* C5: after the first cleanupListener of a session, whatever called it, a
\* further call changes neither the listener set nor any timer nor any
\* response, and no keep-alive frame is written to that session any more.
C5_TeardownIdempotent ==
  [][\A s \in Sessions :
       cleanups[s] # <<>> =>
         /\ KeepAlives(wire'[s]) = KeepAlives(wire[s])
         /\ s \notin SeqRange(listeners')
         /\ ~timer'[s]
         /\ cleanups'[s] # cleanups[s] =>
              /\ listeners' = listeners
              /\ timer' = timer
              /\ wire' = wire]_vars

\* a heartbeat write failed, then a close event arrived for the same session
C5_Witness ==
  \E s \in Sessions : cleanups[s] = <<"heartbeat", "event">>

\* the phone-like field of a request: phone, else caller, else number
PhoneField(req) ==
  IF ~IsNull(req.phone) THEN req.phone
  ELSE IF ~IsNull(req.caller) THEN req.caller
  ELSE req.number

\* it is absent, empty, or has no digit in it
PhoneUnusable(req) ==
  \/ IsNull(PhoneField(req))
  \/ \A i \in 1..Len(JsString(PhoneField(req))) : JsString(PhoneField(req))[i] \notin Digit

\* the credential of a request: the header, else the body, else the query
Credential(req) ==
  IF Truthy(req.header) THEN req.header
  ELSE IF Truthy(req.bodySecret) THEN req.bodySecret
  ELSE IF Truthy(req.querySecret) THEN req.querySecret
  ELSE Null

BadCredential(req) == IsNull(Credential(req)) \/ Credential(req) # expectedSecret

\* the step answers 400 and leaves the history, lastCall and every response
RejectedAs400 ==
  /\ resp'.op = "post"
  /\ resp'.status = 400
  /\ callHistory' = callHistory
  /\ lastCall' = lastCall
  /\ sequence' = sequence
  /\ wire' = wire

\* C6 as stated: an ingestion request whose phone field is absent, empty or
\* without a digit is answered 400 and leaves the history and lastCall as they
\* were, and no frame is written to any listener.
C6_Original ==
  [][\A req \in HubRequests :
       PhoneUnusable(req) =>
         \A failing \in SUBSET SeqRange(listeners) :
           Ingest(req, failing) => RejectedAs400]_vars

\* C6 as amended: an ingestion request that passes the secret check (no secret
\* is configured, or its credential equals the secret) and whose phone field
\* is absent, empty or without a digit is answered 400 and leaves the history
\* and lastCall as they were, and no frame is written to any listener.
C6_RejectedWithoutEffect ==
  [][\A req \in HubRequests :
       (PhoneUnusable(req) /\ (~Truthy(expectedSecret) \/ ~BadCredential(req))) =>
         \A failing \in SUBSET SeqRange(listeners) :
           Ingest(req, failing) => RejectedAs400]_vars

\* a request was answered 400 while an event is stored and a listener is live
C6_Witness ==
  /\ resp.op = "post"
  /\ resp.status = 400
  /\ lastCall # <<>>
  /\ callHistory # <<>>
  /\ listeners # <<>>

\* what a 401 must leave alone
SharedUnchanged ==
  UNCHANGED <<sequence, callHistory, lastCall, listeners, opened, timer, wire, cleanups,
              secretWarningLogged, warnings, logPending, lookupErrors>>

\* the step is one of the four handlers turning a caller away
AuthRejection ==
  \/ /\ Truthy(expectedSecret)
     /\ \E req \in HubRequests :
          BadCredential(req) /\ \E failing \in SUBSET SeqRange(listeners) : Ingest(req, failing)
  \/ StreamOpen(FALSE)
  \/ Last(FALSE)
  \/ \E rawLimit \in HubLimits : LogStart(FALSE, rawLimit)

\* C7: a request turned away for authorization (an ingestion with a secret
\* configured and a missing or different credential, a stream-open, last or
\* log read without a user) is answered 401, carries no data, and changes none
\* of the counter, history, lastCall, listener set, timers and responses.
C7_UnauthorizedChangesNothing ==
  [][(AuthRejection \/ (resp' # resp /\ resp'.status = 401)) =>
       /\ resp'.status = 401
       /\ resp'.call = <<>>
       /\ resp'.entries = <<>>
       /\ SharedUnchanged]_vars

\* an ingestion was answered 401 while an event is stored and a listener is live
C7_Witness ==
  /\ resp.op = "post"
  /\ resp.status = 401
  /\ lastCall # <<>>
  /\ listeners # <<>>

\* C8: an authorized stream-open writes to the new session the retry hint,
\* then one call frame with the current lastCall (the newest entry of the
\* history) if an event has been ingested and nothing else if none has; it
\* writes to no other session.
C8_OpenReplaysLastCallOnly ==
  [][opened' # opened =>
       /\ wire'[opened'][1] = RetryFrame
       /\ IF sequence = 0
          THEN wire'[opened'] = <<RetryFrame>>
          ELSE /\ wire'[opened'] = <<RetryFrame, CallFrame(callHistory[1])>>
               /\ lastCall = <<callHistory[1]>>
       /\ \A t \in Sessions \ {opened'} : wire'[t] = wire[t]]_vars

\* the second session opened after two events and got the second one only
C8_Witness ==
  /\ opened = 2
  /\ Len(callHistory) = 2
  /\ wire[2] = <<RetryFrame, CallFrame(callHistory[1])>>
  /\ 1 \in SeqRange(listeners)
  /\ Len(wire[1]) >= 2

\* the limits of Limits written as a plain decimal number of 1..MAX_HISTORY
PlainLimits == {n \in 1..MAX_HISTORY : DecStr(n) \in Limits}

\* the read that starts in this step takes the k newest events of the history
ReadTakes(k) ==
  IF callHistory = <<>>
  THEN resp'.op = "log" /\ resp'.status = 200 /\ resp'.entries = <<>>
  ELSE /\ logPending' # <<>>
       /\ Len(logPending'[1].slice) = k
       /\ \A i \in 1..k :
            /\ logPending'[1].slice[i] = callHistory[i]
            /\ DecVal(callHistory[i].id) = sequence - i + 1

\* the read that ends in this step answers with the events it took, in order
ReadAnswers ==
  /\ resp'.op = "log"
  /\ resp'.status = 200
  /\ Len(resp'.entries) = Len(logPending[1].slice)
  /\ \A i \in 1..Len(resp'.entries) :
       /\ resp'.entries[i].id = logPending[1].slice[i].id
       /\ DecVal(resp'.entries[i].id) = DecVal(resp'.entries[1].id) - i + 1

\* C9: an authorized history read with a limit of 1..MAX_HISTORY takes the
\* min(limit, length) most recently accepted events of the history and answers
\* with exactly those, in descending id order.
C9_LogReturnsNewest ==
  [][/\ \A n \in PlainLimits :
          LogStart(TRUE, DecStr(n)) => ReadTakes(Min(n, Len(callHistory)))
     /\ (logPending # <<>> /\ logPending' = <<>>) => ReadAnswers]_vars

\* after the ids 1..3, a read answered with the ids 3, 2
C9_Witness ==
  /\ resp.op = "log"
  /\ resp.status = 200
  /\ Len(callHistory) = 3
  /\ Len(resp.entries) = 2
  /\ resp.entries[1].id = <<"3">>
  /\ resp.entries[2].id = <<"2">>

\* a limit that is an integer: a number, or an optional minus and digits
IsInteger(lim) ==
  \/ IsNum(lim)
  \/ /\ IsStr(lim)
     /\ LET body == IF lim # <<>> /\ lim[1] = "-" THEN Tail(lim) ELSE lim
        IN body # <<>> /\ \A i \in 1..Len(body) : body[i] \in Digit

IntegerOf(lim) ==
  IF IsNum(lim) THEN DecVal(Tail(lim))
  ELSE IF lim[1] = "-" THEN 0 - DecVal(Tail(lim))
  ELSE DecVal(lim)

\* a limit without any digit in it
NonNumeric(lim) == IsStr(lim) /\ \A i \in 1..Len(lim) : lim[i] \notin Digit

\* the limits the claim speaks of: absent, not numeric, or an integer
ClaimLimits == {lim \in Limits : IsNull(lim) \/ NonNumeric(lim) \/ IsInteger(lim)}

\* the effective limit the claim gives them
ClaimedLimit(lim) ==
  IF IsNull(lim) \/ NonNumeric(lim) THEN 100
  ELSE IF IntegerOf(lim) < 1 THEN 1
  ELSE IF IntegerOf(lim) > 500 THEN 500
  ELSE IntegerOf(lim)

\* the number of events the read that starts in this step takes
TakenNext == IF logPending' # <<>> THEN Len(logPending'[1].slice) ELSE Len(resp'.entries)

\* C10 as stated: the limit of a history read is 100 when absent or not
\* numeric, 1 for every integer below 1 (0 and the negatives), 500 for every
\* integer above 500, and the read takes min(that limit, length) events.
C10_Original ==
  [][\A lim \in ClaimLimits :
       LogStart(TRUE, lim) => TakenNext = Min(ClaimedLimit(lim), Len(callHistory))]_vars

\* the fields of a returned entry that are copied from the stored event
SameEvent(row, entry) ==
  /\ row.id = entry.id
  /\ row.phone = entry.phone
  /\ row.digits = entry.digits
  /\ row.received_at = entry.received_at
  /\ row.extension = entry.extension
  /\ row.source = entry.source
  /\ row.status = entry.status
  /\ row.note = entry.note

ClosedStatuses == { <<"r", "i", "n", "g", "i", "n", "g">>,
                    <<"a", "n", "s", "w", "e", "r", "e", "d">>,
                    <<"m", "i", "s", "s", "e", "d">>,
                    <<"r", "e", "j", "e", "c", "t", "e", "d">> }

\* the status a word stands for: itself for the four names, missed for the
\* two aliases, ringing for everything else
StatusOf(word) ==
  IF word \in ClosedStatuses THEN word
  ELSE IF word \in { <<"n", "o", "_", "a", "n", "s", "w", "e", "r">>,
                     <<"n", "o", "a", "n", "s", "w", "e", "r">> }
       THEN <<"m", "i", "s", "s", "e", "d">>
  ELSE <<"r", "i", "n", "g", "i", "n", "g">>

\* C12: for every raw status (absent, a number, every word in any letter case
\* with white space around it) normalizeStatus returns one of ringing,
\* answered, missed, rejected: the four names give themselves, no_answer and
\* noanswer give missed, everything else gives ringing; every stored event has
\* a status of the enumeration, and a request is never rejected for its status.
C12_StatusTotalAndLenient ==
  /\ (fnCall.fn = "normalizeStatus" /\ fnCall.out # <<>>) =>
       /\ fnCall.out[1] \in ClosedStatuses
       /\ \A c \in StatusSpellings :
            c.raw = fnCall.arg => fnCall.out[1] = StatusOf(c.word)
       /\ fnCall.arg \in StatusNonStrings => fnCall.out[1] = <<"r", "i", "n", "g", "i", "n", "g">>
       /\ resp.op = "post" =>
            /\ resp.status = 200
            /\ Len(callHistory) = 1
            /\ callHistory[1].status = fnCall.out[1]
  /\ \A i \in 1..Len(callHistory) : callHistory[i].status \in ClosedStatuses

\* " NO_ANSWER" with white space around it was stored as missed
C12_Witness ==
  /\ fnCall.fn = "normalizeStatus"
  /\ fnCall.arg = <<" ", "N", "O", "_", "A", "N", "S", "W", "E", "R", "\t", " ">>
  /\ fnCall.out = <<<<"m", "i", "s", "s", "e", "d">>>>
  /\ callHistory # <<>>
  /\ callHistory[1].status = <<"m", "i", "s", "s", "e", "d">>

\* the text of a raw phone: nothing when absent, the decimals of a number
PhoneText(raw) == IF IsNull(raw) THEN <<>> ELSE IF IsNum(raw) THEN Tail(raw) ELSE raw

DigitPositions(s) == {i \in 1..Len(s) : s[i] \in Digit}

\* the first at most n digits of s, in the order of s
FirstDigits(s, n) ==
  LET pos == DigitPositions(s)
      nth(k) == CHOOSE i \in pos : Cardinality({j \in pos : j <= i}) = k
  IN [k \in 1..Min(n, Cardinality(pos)) |-> s[nth(k)]]

\* the first character of s that is not white space is a plus
PlusFirst(s) ==
  \E i \in 1..Len(s) : s[i] = "+" /\ \A j \in 1..(i - 1) : s[j] \in WhiteSpace

\* digits are decimal digits, at most 20, and phone is empty with empty digits
\* or is the digits, with or without a + in front
PhoneRelation(phone, digits) ==
  /\ \A i \in 1..Len(digits) : digits[i] \in Digit
  /\ Len(digits) <= 20
  /\ phone = <<>> => digits = <<>>
  /\ phone # <<>> => (phone = digits \/ phone = <<"+">> \o digits)

\* C13: for every raw phone, the digits of sanitizePhone are the first at most
\* 20 decimal digits of the input in input order, and the display is empty
\* (then the digits are empty) or is the digits, with a + in front exactly when
\* the trimmed input starts with +; every stored event keeps this relation
\* between phone and digits.
C13_PhoneDigitsAndDisplay ==
  /\ (fnCall.fn = "sanitizePhone" /\ fnCall.out # <<>>) =>
       LET text == PhoneText(fnCall.arg)
           display == fnCall.out[1].display
           digits == fnCall.out[1].digits
       IN /\ digits = FirstDigits(text, 20)
          /\ PhoneRelation(display, digits)
          /\ display # <<>> =>
               display = (IF PlusFirst(text) THEN <<"+">> \o digits ELSE digits)
          /\ resp.op = "post" /\ resp.status = 200 =>
               /\ callHistory[1].digits = digits
               /\ callHistory[1].phone = display
  /\ \A i \in 1..Len(callHistory) :
       /\ callHistory[i].digits # <<>>
       /\ PhoneRelation(callHistory[i].phone, callHistory[i].digits)

\* a phone of more than 20 digits behind a + was stored with its first 20
C13_Witness ==
  /\ fnCall.fn = "sanitizePhone"
  /\ fnCall.out # <<>>
  /\ Cardinality(DigitPositions(PhoneText(fnCall.arg))) > 20
  /\ PlusFirst(PhoneText(fnCall.arg))
  /\ callHistory # <<>>
  /\ Len(callHistory[1].digits) = 20
  /\ callHistory[1].phone = <<"+">> \o callHistory[1].digits

\* C14: with no secret configured, every ingestion request, whatever
\* credential it carries, gets past the secret check (it is answered 200 or
\* 400, never 401), and console.warn is called by the first of them and by no
\* later one: the count of warnings goes from 0 to 1 there and stays.
C14_NoSecretAcceptsAllWarnsOnce ==
  [][~Truthy(expectedSecret) =>
       /\ (resp'.op = "post" /\ now' = now /\ logPending' = logPending) =>
            \A req \in Requests : \A failing \in SUBSET SeqRange(listeners) :
              Ingest(req, failing) =>
                /\ resp'.status \in {200, 400}
                /\ warnings' = 1
                /\ secretWarningLogged'
       /\ warnings' # warnings => (warnings = 0 /\ warnings' = 1 /\ resp'.op = "post")
       /\ sequence' > 0 => warnings' = 1]_vars

\* no secret, three events accepted and a fourth request turned down for its
\* phone: one warning
C14_Witness ==
  /\ ~Truthy(expectedSecret)
  /\ Len(callHistory) = 3
  /\ resp.op = "post"
  /\ resp.status = 400
  /\ warnings = 1

\* C15: once cleanupListener has run for a session, whatever called it, no
\* step writes a frame of any kind to its response, and the session is not in
\* the listener set, then or ever after.
C15_ClosedIsTerminal ==
  [][\A s \in Sessions :
       cleanups[s] # <<>> =>
         /\ wire'[s] = wire[s]
         /\ s \notin SeqRange(listeners)
         /\ s \notin SeqRange(listeners')]_vars

\* a session closed by a connection event missed the event ingested after,
\* which a live session received
C15_Witness ==
  \E s \in Sessions : \E t \in SeqRange(listeners) :
    /\ cleanups[s] = <<"event">>
    /\ CallIds(wire[s]) # <<>>
    /\ LastOf(CallIds(wire[s])) < sequence
    /\ CallIds(wire[t]) # <<>>
    /\ LastOf(CallIds(wire[t])) = sequence

\* the person a directory answer holds for digits: the first row whose phone,
\* trimmed, is the digits; << >> when there is none
DirectoryHit(rows, digits) ==
  LET hits == {k \in 1..Len(rows) :
                 ~IsNull(rows[k].phone) /\ Trim(JsString(rows[k].phone)) = digits}
  IN IF hits = {} THEN <<>>
     ELSE <<rows[CHOOSE k \in hits : \A m \in hits : k <= m]>>

\* stored wins when it is there; without it the value is the one looked up, or
\* null; with neither it is null
StoredFirst(returned, stored, hit, looked) ==
  /\ ~IsNull(stored) => returned = stored
  /\ (IsNull(stored) /\ hit) => returned \in {looked, Null}
  /\ (IsNull(stored) /\ ~hit) => returned = Null

\* C16 as stated: in a history read, the caller name and person id stored at
\* ingestion are returned whenever they are there; the directory value for the
\* entry's digits is used only when the stored one is absent, and the result
\* is null when both are absent.
C16_Original ==
  [][(logPending # <<>> /\ logPending' = <<>>) =>
       \A threw \in BOOLEAN : \A rows \in DbRows :
         LogFinish(threw, IF threw THEN <<>> ELSE rows) =>
           \A i \in 1..Len(logPending[1].slice) :
             LET entry == logPending[1].slice[i]
                 found == IF threw THEN <<>> ELSE DirectoryHit(rows, entry.digits)
                 hit == found # <<>>
             IN /\ StoredFirst(resp'.entries[i].caller_name, entry.meta.callerName,
                               hit, IF hit THEN found[1].name ELSE Null)
                /\ StoredFirst(resp'.entries[i].person_id, entry.meta.personId,
                               hit, IF hit THEN found[1].id ELSE Null)]_vars

\* the events of the history before the step are in the history after it,
\* unchanged, d places further down, as far as the capacity goes
SameEventsAfter(d) ==
  \A i \in 1..Len(callHistory) :
    i + d <= MAX_HISTORY =>
      /\ Len(callHistory') >= i + d
      /\ callHistory'[i + d] = callHistory[i]

\* the step is a run of the last or of the log handler
ReadStep ==
  \/ \E user \in BOOLEAN : Last(user)
  \/ \E user \in BOOLEAN : \E rawLimit \in HubLimits : LogStart(user, rawLimit)
  \/ \E threw \in BOOLEAN : \E rows \in DbRows : LogFinish(threw, IF threw THEN <<>> ELSE rows)

\* C17: every stored event keeps all its fields across every step (ingestion,
\* stream-open, broadcast, teardown, heartbeat, last and log reads, with their
\* enrichment), and the last and log reads leave the counter, the history,
\* lastCall and the listener set as they were.
C17_StoredEventsNeverChange ==
  [][/\ SameEventsAfter(sequence' - sequence)
     /\ (steps' # steps /\ sequence' = sequence /\ opened' = opened /\ now' = now) =>
          (ReadStep => UNCHANGED <<sequence, callHistory, lastCall, listeners>>)]_vars

\* a read answered with a name from the directory, and the two stored events
\* still have none
C17_Witness ==
  /\ resp.op = "log"
  /\ Len(resp.entries) = 2
  /\ Len(callHistory) = 2
  /\ resp.entries[1].id = callHistory[1].id
  /\ resp.entries[1].caller_name = <<"B", "o", "b">>
  /\ resp.entries[1].person_id = JsNum(9)
  /\ callHistory[1].meta.callerName = Null
  /\ callHistory[1].meta.personId = Null

\* C18: lastCall is null exactly when the history is empty; otherwise it is
\* the first (newest) entry of the history and its id is the counter.
C18_LastCallIsHead ==
  /\ lastCall = <<>> <=> callHistory = <<>>
  /\ lastCall # <<>> =>
       /\ callHistory # <<>>
       /\ lastCall[1] = callHistory[1]
       /\ lastCall[1].id = DecStr(sequence)
  /\ lastCall = <<>> => sequence = 0

\* three events accepted, then a request rejected
C18_Witness ==
  /\ sequence = 3
  /\ lastCall # <<>>
  /\ lastCall[1].id = <<"3">>
  /\ resp.op = "post"
  /\ resp.status \in {400, 401}
  /\ listeners # <<>>

\* C19: the interval of a session is running exactly when the session is in
\* the listener set, whatever removed it.
C19_TimerIffRegistered ==
  \A s \in Sessions : timer[s] <=> s \in SeqRange(listeners)

\* one session live, one removed by a keep-alive that threw, one by a
\* broadcast write that threw
C19_Witness ==
  \E s1, s2, s3 \in Sessions :
    /\ s1 \in SeqRange(listeners)
    /\ timer[s1]
    /\ cleanups[s2] = <<"heartbeat">>
    /\ ~timer[s2]
    /\ cleanups[s3] = <<"broadcast">>
    /\ ~timer[s3]

\* C20: on every response, the ids of the call frames, the one written at
\* open included, are strictly increasing: no event is written twice to a
\* session, and the event sent at open is not sent again by a broadcast.
C20_CallIdsStrictlyIncrease ==
  \A s \in Sessions :
    LET ids == CallIds(wire[s])
    IN \A i \in 1..Len(ids) : \A j \in 1..Len(ids) : i < j => ids[i] < ids[j]

\* a session opened after the first event got it at open, then the next two
C20_Witness ==
  \E s \in Sessions :
    /\ Len(wire[s]) >= 4
    /\ wire[s][2].type = "call"
    /\ CallIds(wire[s]) = <<1, 2, 3>>

====
